---- MODULE Spec2Model ----
(***************************************************************************)
(* Drossel-Schwabl forest fire model with fire-cluster tracking            *)
(* (src/src/drossel-schwabl_forest_fire_model.py, class ForestFireModel).  *)
(*                                                                         *)
(* The state is the simulator instance: grid, fire_cluster_ids,            *)
(* next_cluster_id, step_count, active_fire_history, cluster_registry and  *)
(* current_clusters.  One action, Step, models one whole call of step():   *)
(* the grid update, the cluster-ID update and the data collection          *)
(* (history append, registry update, death marking, pruning).              *)
(*                                                                         *)
(* The random draws of step() are the two inputs of the action: the set    *)
(* of cells whose tree-growth draw is below p_tree and the set of cells    *)
(* whose lightning draw is below p_fire.                                   *)
(***************************************************************************)
EXTENDS Integers, Sequences, FiniteSets, TLC

\* ---------------------------------------------------------------- bounds
\* Side length of the square grid (constructor parameter grid_size).
grid_size == 3

\* Capacity W of the two bounded histories and the pruning delay
\* (self.window_size; 6000 in the source, small here so that eviction and
\* pruning happen within the explored runs).
window_size == 2

\* step() is explored while step_count < MaxSteps.
MaxSteps == 5

\* Lightning may mint IDs only while the minted IDs stay <= MaxId.
MaxId == 2

\* Tree growth is explored on the first MaxGrowCells cells (in row-major
\* order) only: the growth draw of every other cell is taken to be >= p_tree.
MaxGrowCells == 1

\* The initial forest holds at most MaxInitTrees trees.
MaxInitTrees == 3

\* Lightning that changes nothing is drawn on the last MaxStrayCells cells.
MaxStrayCells == 1

\* A fire region seeded by hand holds at most MaxRegion cells.
MaxRegion == 1

\* ------------------------------------------------------------ cell states
EMPTY == 0
TREE == 1
BURNING == 2
ASH == 3

\* 'death': None of a registry entry whose cluster is still alive.
None == 0 - 1

\* self.p_tree and self.p_fire are kept by what "random < p" makes of them,
\* np.random.random drawing from [0, 1): a p below 0 or equal to 0 is never
\* exceeded, a p strictly inside (0, 1) sometimes, a p of 1 or above always.
Probabilities == {"below0", "zero", "inside", "one", "above1"}

\* lightning_mask records the lightning draw of the last step (on the trees
\* it could ignite); minted records the IDs handed out so far.
VARIABLES grid, fire_cluster_ids, next_cluster_id, step_count,
          active_fire_history, cluster_registry, current_clusters,
          p_tree, p_fire, lightning_mask, minted

vars == <<grid, fire_cluster_ids, next_cluster_id, step_count,
          active_fire_history, cluster_registry, current_clusters,
          p_tree, p_fire, lightning_mask, minted>>

\* The cells of the grid_size x grid_size arrays, each named by its position
\* in numpy's C (row-major) order: cell (r, k) is r * grid_size + k.
Cells == 0 .. grid_size * grid_size - 1

row(c) == c \div grid_size

col(c) == c % grid_size

cell(r, k) == r * grid_size + k

\* Position of a cell in the order in which a boolean mask is traversed.
RowMajor(c) == c

Max2(a, b) == IF a >= b THEN a ELSE b

\* ------------------------------------------------ step(): fire propagation
\* np.roll(a, -1, axis=0)[r, k] = a[(r + 1) % grid_size, k], and likewise for
\* the other three shifts.
roll_up(c) == cell((row(c) + 1) % grid_size, col(c))

roll_down(c) == cell((row(c) + grid_size - 1) % grid_size, col(c))

roll_left(c) == cell(row(c), (col(c) + 1) % grid_size)

roll_right(c) == cell(row(c), (col(c) + grid_size - 1) % grid_size)

\* Variant of up without the boundary mask: np.roll alone, which wraps.
up_Wrapping(g, c) == g[roll_up(c)] = BURNING

\* up    = np.roll(burning, -1, axis=0) & (row < grid_size - 1)
up(g, c) == g[roll_up(c)] = BURNING /\ row(c) < grid_size - 1

\* down  = np.roll(burning, 1, axis=0) & (row > 0)
down(g, c) == g[roll_down(c)] = BURNING /\ row(c) > 0

\* left  = np.roll(burning, -1, axis=1) & (col < grid_size - 1)
left(g, c) == g[roll_left(c)] = BURNING /\ col(c) < grid_size - 1

\* right = np.roll(burning, 1, axis=1) & (col > 0)
right(g, c) == g[roll_right(c)] = BURNING /\ col(c) > 0

fire_neighbors_mask(g, c) == up(g, c) \/ down(g, c) \/ left(g, c) \/ right(g, c)

\* Variant of new_trees without the "empty &" term.
new_trees_AnyCell(g, treeDraw) == treeDraw

\* new_trees = empty & (random < p_tree); treeDraw is the set of cells whose
\* draw is below p_tree.
new_trees(g, treeDraw) == {c \in Cells : g[c] = EMPTY /\ c \in treeDraw}

\* Variant of ignited_trees without the "trees &" term.
ignited_trees_AnyCell(g, lightning) ==
  {c \in Cells : fire_neighbors_mask(g, c) \/ c \in lightning}

\* ignited_trees = trees & (fire_neighbors_mask | lightning_mask); lightning is
\* the set of cells whose draw is below p_fire.
ignited_trees(g, lightning) ==
  {c \in Cells : g[c] = TREE /\ (fire_neighbors_mask(g, c) \/ c \in lightning)}

\* --------------------------------------------------- step(): cluster logic
\* id_up = np.roll(current_cluster_ids, -1, axis=0) * up, and the other three.
id_up(g, ids, c) == IF up(g, c) THEN ids[roll_up(c)] ELSE 0

id_down(g, ids, c) == IF down(g, c) THEN ids[roll_down(c)] ELSE 0

id_left(g, ids, c) == IF left(g, c) THEN ids[roll_left(c)] ELSE 0

id_right(g, ids, c) == IF right(g, c) THEN ids[roll_right(c)] ELSE 0

\* The smaller of two neighbour IDs that is not 0 (0 when both are 0).
MinId2(a, b) == IF a = 0 THEN b ELSE IF b = 0 THEN a ELSE IF a < b THEN a ELSE b

\* Variant of max_neighbor_id that takes the smallest ID of a burning
\* neighbour instead of the largest.
max_neighbor_id_Smallest(g, ids, c) ==
  MinId2(MinId2(id_up(g, ids, c), id_down(g, ids, c)),
         MinId2(id_left(g, ids, c), id_right(g, ids, c)))

\* Variant of max_neighbor_id that takes the first neighbour ID that is not 0
\* instead of the largest.
max_neighbor_id_First(g, ids, c) ==
  IF id_up(g, ids, c) # 0 THEN id_up(g, ids, c)
  ELSE IF id_down(g, ids, c) # 0 THEN id_down(g, ids, c)
  ELSE IF id_left(g, ids, c) # 0 THEN id_left(g, ids, c)
  ELSE id_right(g, ids, c)

\* max_neighbor_id = np.maximum.reduce([id_up, id_down, id_left, id_right])
max_neighbor_id(g, ids, c) ==
  Max2(Max2(id_up(g, ids, c), id_down(g, ids, c)),
       Max2(id_left(g, ids, c), id_right(g, ids, c)))

\* propagated_mask = ignited_trees & fire_neighbors_mask
propagated_mask(g, ignited) == {c \in ignited : fire_neighbors_mask(g, c)}

\* new_lightning_mask = ignited_trees & ~fire_neighbors_mask
new_lightning_mask(g, ignited) == {c \in ignited : ~fire_neighbors_mask(g, c)}

\* num_new_fires = np.sum(new_lightning_mask)
num_new_fires(newLightning) == Cardinality(newLightning)

\* Variant of new_ids that numbers the new fires of every step from 1.
new_ids_FromOne(nid, newLightning, c) ==
  1 + Cardinality({d \in newLightning : RowMajor(d) < RowMajor(c)})

\* Variant of new_ids that writes the scalar next_cluster_id through the mask.
new_ids_Same(nid, newLightning, c) == nid

\* new_ids = np.arange(next_cluster_id, next_cluster_id + num_new_fires),
\* written through the boolean mask, i.e. in row-major order of the cells.
new_ids(nid, newLightning, c) ==
  nid + Cardinality({d \in newLightning : RowMajor(d) < RowMajor(c)})

\* new_cluster_ids after both assignments (case A, then case B).
new_cluster_ids(g, ids, nid, propagated, newLightning) ==
  [c \in Cells |->
     IF c \in newLightning THEN new_ids(nid, newLightning, c)
     ELSE IF c \in propagated THEN max_neighbor_id(g, ids, c)
     ELSE 0]

\* Variant of next_cluster_id_after that advances the counter by one per step
\* with lightning instead of by the number of new fires.
next_cluster_id_after_ByOne(nid, newLightning) ==
  IF num_new_fires(newLightning) > 0 THEN nid + 1 ELSE nid

\* self.next_cluster_id += num_new_fires (inside "if num_new_fires > 0")
next_cluster_id_after(nid, newLightning) ==
  IF num_new_fires(newLightning) > 0
    THEN nid + num_new_fires(newLightning)
    ELSE nid

\* History of the IDs written to the lightning cells (new_cluster_ids under
\* new_lightning_mask), in the order of the cells in the mask.
minted_after(m, newIds, newLightning) ==
  m \o [i \in 1 .. Cardinality(newLightning) |->
          newIds[CHOOSE c \in newLightning :
                   Cardinality({d \in newLightning : RowMajor(d) < RowMajor(c)}) = i - 1]]

\* Variant of ash_ids without the second np.where: only the cells that were
\* burning keep an ID.
ash_ids_BurningOnly(g, ids) ==
  [c \in Cells |-> IF g[c] = BURNING THEN ids[c] ELSE 0]

\* ash_ids: the ID of every cell that was burning or already ash.
ash_ids(g, ids) ==
  [c \in Cells |->
     IF g[c] = ASH THEN ids[c]
     ELSE IF g[c] = BURNING THEN ids[c]
     ELSE 0]

\* active_ids = np.unique(new_cluster_ids[ignited_trees])
active_ids(newIds, ignited) == {newIds[c] : c \in ignited}

\* Variant of active_ash_mask without the np.isin liveness filter: every cell
\* that was burning or ash stays ash.
active_ash_mask_KeepAll(ashIds, activeIds) == {c \in Cells : ashIds[c] > 0}

\* active_ash_mask = np.isin(ash_ids, active_ids) & (ash_ids > 0)
active_ash_mask(ashIds, activeIds) ==
  {c \in Cells : ashIds[c] \in activeIds /\ ashIds[c] > 0}

\* Variant of grid_after without "self.grid[active_ash_mask] = 3".
grid_after_NoAsh(g, newTrees, ignited, activeAsh) ==
  [c \in Cells |->
     IF c \in ignited THEN BURNING
     ELSE IF c \in newTrees THEN TREE
     ELSE IF g[c] = TREE /\ c \notin ignited THEN TREE
     ELSE EMPTY]

\* The new grid: the four masked assignments in source order, so the last
\* assignment that covers a cell wins.
grid_after(g, newTrees, ignited, activeAsh) ==
  [c \in Cells |->
     IF c \in ignited THEN BURNING
     ELSE IF c \in activeAsh THEN ASH
     ELSE IF c \in newTrees THEN TREE
     ELSE IF g[c] = TREE /\ c \notin ignited THEN TREE
     ELSE EMPTY]

\* Variant of fire_cluster_ids_after without "self.fire_cluster_ids[:] = 0":
\* a cell that neither ignites nor is active ash keeps the ID it had.
fire_cluster_ids_after_NoReset(newIds, ashIds, ignited, activeAsh) ==
  [c \in Cells |->
     IF c \in activeAsh THEN ashIds[c]
     ELSE IF c \in ignited THEN newIds[c]
     ELSE ashIds[c]]

\* Variant of fire_cluster_ids_after without the assignment of the ash IDs:
\* only the ignited cells carry an ID.
fire_cluster_ids_after_NewFireOnly(newIds, ashIds, ignited, activeAsh) ==
  [c \in Cells |-> IF c \in ignited THEN newIds[c] ELSE 0]

\* The new cluster-ID grid: zeroed, then the ignited cells, then the active
\* ash cells (the last assignment that covers a cell wins).
fire_cluster_ids_after(newIds, ashIds, ignited, activeAsh) ==
  [c \in Cells |->
     IF c \in activeAsh THEN ashIds[c]
     ELSE IF c \in ignited THEN newIds[c]
     ELSE 0]

\* ------------------------------------------------ step(): data collection
\* Variant of total_fire_count that also counts the ASH cells.
total_fire_count_WithAsh(g) == Cardinality({c \in Cells : g[c] >= BURNING})

\* total_fire_count = np.sum(self.grid == 2)
total_fire_count(g) == Cardinality({c \in Cells : g[c] = BURNING})

\* Variant of deque_append for a deque built without maxlen.
deque_append_Unbounded(q, x) == Append(q, x)

\* deque(maxlen=window_size).append(x): the oldest element leaves at capacity.
deque_append(q, x) ==
  IF window_size = 0 THEN q
  ELSE IF Len(q) >= window_size THEN Append(Tail(q), x)
  ELSE Append(q, x)

\* active_cluster_ids = set(fire_cluster_ids[grid == 2]); discard(0)
active_cluster_ids(g, ids) == {ids[c] : c \in {d \in Cells : g[d] = BURNING}} \ {0}

\* Variant of cluster_size that compares with >= instead of ==.
cluster_size_AtLeast(ids, k) == Cardinality({c \in Cells : ids[c] >= k})

\* cluster_size = np.sum(self.fire_cluster_ids == cluster_id)
cluster_size(ids, k) == Cardinality({c \in Cells : ids[c] = k})

\* new_current_clusters: {cluster_id: cluster_size} of the active clusters.
new_current_clusters(g, ids) ==
  [k \in active_cluster_ids(g, ids) |-> cluster_size(ids, k)]

\* Variant of new_entry that takes birth from the step counter before its
\* increment.
new_entry_BirthBefore(step, size) ==
  [birth |-> step - 1, death |-> None, max_size |-> size, sizes |-> <<>>]

\* The registry entry created for a cluster that is not in the registry.
new_entry(step, size) ==
  [birth |-> step, death |-> None, max_size |-> size, sizes |-> <<>>]

\* Variant of update_entry without the max_size update.
update_entry_NoMax(e, step, size) ==
  [e EXCEPT !.sizes = deque_append(e.sizes, <<step, size>>)]

\* The "Update cluster info" lines on one entry: append the sample, raise
\* max_size.
update_entry(e, step, size) ==
  [e EXCEPT !.sizes = deque_append(e.sizes, <<step, size>>),
            !.max_size = IF size > e.max_size THEN size ELSE e.max_size]

\* The "Track cluster sizes" loop over active_cluster_ids.
registry_tracked(reg, active, ids, step) ==
  [k \in (DOMAIN reg) \cup active |->
     IF k \in active
       THEN update_entry(IF k \in DOMAIN reg THEN reg[k]
                         ELSE new_entry(step, cluster_size(ids, k)),
                         step, cluster_size(ids, k))
       ELSE reg[k]]

\* Variant of died_cluster_ids that finds no died cluster.
died_cluster_ids_None(cur, active) == {}

\* Variant of died_cluster_ids without the set difference: every cluster of
\* the previous step counts as died.
died_cluster_ids_AllPrevious(cur, active) == DOMAIN cur

\* died_cluster_ids = previous_cluster_ids - active_cluster_ids
died_cluster_ids(cur, active) == (DOMAIN cur) \ active

\* Variant of registry_deaths that never records a death.
registry_deaths_Never(reg, died, step) == reg

\* The loop that sets 'death' on the clusters that died this step.
registry_deaths(reg, died, step) ==
  [k \in DOMAIN reg |->
     IF k \in died /\ reg[k].death = None
       THEN [reg[k] EXCEPT !.death = step]
       ELSE reg[k]]

\* Variant of clusters_to_remove that prunes nothing.
clusters_to_remove_Never(reg, step) == {}

\* Variant of clusters_to_remove that prunes one step late.
clusters_to_remove_Late(reg, step) ==
  {k \in DOMAIN reg :
     reg[k].death # None /\ (step - reg[k].death) > window_size + 1}

\* Variant of clusters_to_remove that compares with >= instead of >.
clusters_to_remove_Early(reg, step) ==
  {k \in DOMAIN reg :
     reg[k].death # None /\ (step - reg[k].death) >= window_size}

\* clusters_to_remove: dead for more than window_size steps.
clusters_to_remove(reg, step) ==
  {k \in DOMAIN reg : reg[k].death # None /\ (step - reg[k].death) > window_size}

\* del self.cluster_registry[cluster_id] for every cluster to remove.
registry_pruned(reg, step) ==
  [k \in (DOMAIN reg) \ clusters_to_remove(reg, step) |-> reg[k]]

\* ------------------------------------------------------------ the machine
\* The number of TREE cells of a grid.
num_trees(g) == Cardinality({c \in Cells : g[c] = TREE})

\* The state after ForestFireModel.__init__(grid_size, p_tree, p_fire) and an
\* assignment of g to the grid and ids to the cluster-ID grid: the parameters
\* are stored as given, there is no cluster and no history.
Seeded(g, ids, pt, pf) ==
  /\ grid = g
  /\ fire_cluster_ids = ids
  /\ p_tree = pt
  /\ p_fire = pf
  /\ next_cluster_id = 1
  /\ step_count = 0
  /\ active_fire_history = <<>>
  /\ cluster_registry = <<>>
  /\ current_clusters = <<>>
  /\ lightning_mask = {}
  /\ minted = <<>>

\* Variant of the constructor that starts the ID counter at 0.
Constructed_CounterFromZero(g, pt, pf) ==
  /\ grid = g
  /\ fire_cluster_ids = [c \in Cells |-> 0]
  /\ p_tree = pt
  /\ p_fire = pf
  /\ next_cluster_id = 0
  /\ step_count = 0
  /\ active_fire_history = <<>>
  /\ cluster_registry = <<>>
  /\ current_clusters = <<>>
  /\ lightning_mask = {}
  /\ minted = <<>>

\* ForestFireModel.__init__(grid_size, p_tree, p_fire) with the initial forest
\* g drawn by "random < 0.3": every cluster ID is 0.
Constructed(g, pt, pf) == Seeded(g, [c \in Cells |-> 0], pt, pf)

\* The initial forests that are explored.
InitGrids == {g \in [Cells -> {EMPTY, TREE}] : num_trees(g) <= MaxInitTrees}

\* A simulator constructed with p_tree and p_fire strictly inside (0, 1).
Init == \E g \in InitGrids : Constructed(g, "inside", "inside")

\* One call of step() with the given draws.  Each local variable of step()
\* is bound once, in source order, as the single element of a set.
StepWith(treeDraw, lightning) ==
  \E newTrees \in {new_trees(grid, treeDraw)} :
  \E ignited \in {ignited_trees(grid, lightning)} :
  \E newLightning \in {new_lightning_mask(grid, ignited)} :
  \E propagated \in {propagated_mask(grid, ignited)} :
  \E newIds \in {new_cluster_ids(grid, fire_cluster_ids, next_cluster_id,
                                 propagated, newLightning)} :
  \E ashIds \in {ash_ids(grid, fire_cluster_ids)} :
  \E activeIds \in {active_ids(newIds, ignited)} :
  \E activeAsh \in {active_ash_mask(ashIds, activeIds)} :
  \E g2 \in {grid_after(grid, newTrees, ignited, activeAsh)} :
  \E ids2 \in {fire_cluster_ids_after(newIds, ashIds, ignited, activeAsh)} :
  \E step \in {step_count + 1} :
  \E active \in {active_cluster_ids(g2, ids2)} :
  \E tracked \in {registry_tracked(cluster_registry, active, ids2, step)} :
  \E died \in {died_cluster_ids(current_clusters, active)} :
  \E marked \in {registry_deaths(tracked, died, step)} :
     /\ grid' = g2
     /\ fire_cluster_ids' = ids2
     /\ next_cluster_id' = next_cluster_id_after(next_cluster_id, newLightning)
     /\ minted' = minted_after(minted, newIds, newLightning)
     /\ step_count' = step
     /\ active_fire_history' =
          deque_append(active_fire_history, <<step, total_fire_count(g2)>>)
     /\ current_clusters' = new_current_clusters(g2, ids2)
     /\ cluster_registry' = registry_pruned(marked, step)
     /\ lightning_mask' = lightning
     /\ UNCHANGED <<p_tree, p_fire>>

\* The subsets of S with at most k elements.
RECURSIVE SubsetsUpTo(_, _)
SubsetsUpTo(S, k) ==
  IF k <= 0 THEN {{}}
  ELSE LET P == SubsetsUpTo(S, k - 1)
       IN P \cup {p \cup {x} : p \in P, x \in S}

\* Variant of tree_draws for "random <= p_tree": a draw of 0.0 makes a tree
\* sprout although p_tree is 0.
tree_draws_Inclusive(g, pt) ==
  IF pt = "below0" THEN {{}}
  ELSE IF pt \in {"one", "above1"} THEN {Cells}
  ELSE SUBSET {c \in Cells : g[c] = EMPTY /\ c < MaxGrowCells}

\* The outcomes of "random < p_tree": no cell for p <= 0, every cell for
\* p >= 1, otherwise any set of empty cells among the first MaxGrowCells
\* cells (a draw on a cell that is not empty changes nothing).
tree_draws(g, pt) ==
  IF pt \in {"below0", "zero"} THEN {{}}
  ELSE IF pt \in {"one", "above1"} THEN {Cells}
  ELSE SUBSET {c \in Cells : g[c] = EMPTY /\ c < MaxGrowCells}

\* The outcomes of "random < p_fire": no cell for p <= 0, every cell for
\* p >= 1, otherwise any set of trees without a burning neighbour that keeps
\* the minted IDs <= MaxId, together with at most one of the cells of stray
\* on which a strike changes nothing (not a tree, or a tree that a burning
\* neighbour ignites anyway).
lightning_draws(g, pf, nid, stray) ==
  IF pf \in {"below0", "zero"} THEN {{}}
  ELSE IF pf \in {"one", "above1"} THEN {Cells}
  ELSE {hit \cup miss :
          hit \in SubsetsUpTo({c \in Cells : g[c] = TREE
                                              /\ ~fire_neighbors_mask(g, c)},
                              MaxId + 1 - nid),
          miss \in SubsetsUpTo({c \in stray :
                                  g[c] # TREE \/ fire_neighbors_mask(g, c)},
                               1)}

\* step() with any draws its probabilities allow, explored for maxStep steps;
\* lightning without effect is drawn on the cells of stray.
StepOn(maxStep, stray) ==
  /\ step_count < maxStep
  /\ \E treeDraw \in tree_draws(grid, p_tree) :
     \E lightning \in lightning_draws(grid, p_fire, next_cluster_id, stray) :
       StepWith(treeDraw, lightning)

\* step() where every lightning strike ignites a tree.
StepUpTo(maxStep) == StepOn(maxStep, {})

Step == StepUpTo(MaxSteps)

Next == Step

Spec == Init /\ [][Next]_vars

\* ------------------------------------------------- scenarios with p = 0
\* The runs of the scenarios are explored for twice as many steps, so that a
\* fire can cross the whole grid and its entry can be pruned afterwards.
ScenarioSteps == MaxSteps + MaxSteps

StepScenario == StepUpTo(ScenarioSteps)

\* The nonempty sets of at most MaxRegion cells of S.
Regions(S) == SubsetsUpTo(S, MaxRegion) \ {{}}

\* Scenario B: p_tree = 0, p_fire = 0; two disjoint sets of cells are set
\* BURNING with cluster IDs 1 and 2, every other cell is TREE or EMPTY.
InitB ==
  \E R1 \in Regions(Cells) :
  \E R2 \in Regions(Cells \ R1) :
  \E T \in SUBSET (Cells \ (R1 \cup R2)) :
    Seeded([c \in Cells |-> IF c \in R1 \cup R2 THEN BURNING
                            ELSE IF c \in T THEN TREE ELSE EMPTY],
           [c \in Cells |-> IF c \in R1 THEN 1 ELSE IF c \in R2 THEN 2 ELSE 0],
           "zero", "zero")

NextB == StepScenario

SpecB == InitB /\ [][NextB]_vars

\* Scenario C: p_tree = 0, p_fire = 0 and a freshly constructed simulator (any
\* forest, no fire).
InitC == \E g \in [Cells -> {EMPTY, TREE}] : Constructed(g, "zero", "zero")

NextC == StepScenario

SpecC == InitC /\ [][NextC]_vars

\* The cell in the middle of the grid: (2,2) on a 5x5 grid, (1,1) on 3x3.
Centre == cell(grid_size \div 2, grid_size \div 2)

\* Scenario A: p_fire = 0, any p_tree in [0, 1]; the cell in the middle of the
\* grid is set BURNING with a positive cluster ID, every other cell is TREE
\* or EMPTY.
InitA ==
  \E k \in 1 .. MaxId :
  \E T \in SUBSET (Cells \ {Centre}) :
  \E pt \in {"zero", "inside", "one"} :
    Seeded([c \in Cells |-> IF c = Centre THEN BURNING
                            ELSE IF c \in T THEN TREE ELSE EMPTY],
           [c \in Cells |-> IF c = Centre THEN k ELSE 0],
           pt, "zero")

NextA == Step

SpecA == InitA /\ [][NextA]_vars

\* Construction with any p_tree and p_fire, in [0, 1] or not: __init__ stores
\* them unchecked.
InitAnyP ==
  \E g \in InitGrids :
  \E pt \in Probabilities :
  \E pf \in Probabilities :
    Constructed(g, pt, pf)

NextAnyP == Step

SpecAnyP == InitAnyP /\ [][NextAnyP]_vars

\* ------------------------------------- lightning on cells of any state
\* The cells on which lightning without effect is drawn.
StrayCells == {c \in Cells : c >= grid_size * grid_size - MaxStrayCells}

\* With lightning on any cell step() is explored for half as many steps.
StrikeSteps == (MaxSteps + 1) \div 2

InitStrikes == \E g \in InitGrids : Constructed(g, "inside", "inside")

NextStrikes == StepOn(StrikeSteps, StrayCells)

SpecStrikes == InitStrikes /\ [][NextStrikes]_vars

\* ------------------------------------------ runs in which the fire ends
\* step() is called again and again. The draws are free for StrikeSteps
\* steps; from then on no draw falls below p_tree or p_fire, and step() is
\* explored while a cell is BURNING or ASH or the registry holds an entry,
\* which is for at most as many further steps as a fire can burn (one cell of
\* the grid per step at least) and a dead cluster stays in the registry.
LiveSteps == StrikeSteps + grid_size * grid_size + window_size + 1

StepDrawn == StepUpTo(StrikeSteps)

StepQuiet ==
  /\ step_count >= StrikeSteps
  /\ step_count < LiveSteps
  /\ \/ \E c \in Cells : grid[c] \in {BURNING, ASH}
     \/ DOMAIN cluster_registry # {}
  /\ StepWith({}, {})

\* No tree grows in these runs: p_tree = 0.
InitLive == \E g \in InitGrids : Constructed(g, "zero", "inside")

NextLive == StepDrawn \/ StepQuiet

SpecLive == InitLive /\ [][NextLive]_vars /\ WF_vars(NextLive)

\* ------------------------------------- a seeded fire with p = 0 burns out
\* A fire burns for at most one step per cell of the grid and a dead cluster
\* stays in the registry for window_size + 1 steps.
BurnOutSteps == grid_size * grid_size + window_size + 1

\* p_tree = 0, p_fire = 0; two cells are set BURNING or ASH by hand, with
\* cluster IDs 1 and 2, and at most MaxInitTrees other cells are TREE.
InitBurnOut ==
  \E c1 \in Cells :
  \E c2 \in Cells \ {c1} :
  \E s1 \in {BURNING, ASH} :
  \E s2 \in {BURNING, ASH} :
  \E T \in SubsetsUpTo(Cells \ {c1, c2}, MaxInitTrees) :
    Seeded([c \in Cells |-> IF c = c1 THEN s1
                            ELSE IF c = c2 THEN s2
                            ELSE IF c \in T THEN TREE ELSE EMPTY],
           [c \in Cells |-> IF c = c1 THEN 1 ELSE IF c = c2 THEN 2 ELSE 0],
           "zero", "zero")

NextBurnOut == StepUpTo(BurnOutSteps)

SpecBurnOut == InitBurnOut /\ [][NextBurnOut]_vars /\ WF_vars(NextBurnOut)

\* ------------------------------------------------------------- properties
\* The cells that carry cluster ID k.
CellsOf(ids, k) == {c \in Cells : ids[c] = k}

\* The BURNING cells that carry cluster ID k.
BurningOf(g, ids, k) == {c \in Cells : g[c] = BURNING /\ ids[c] = k}

\* The IDs that appear on the cluster-ID grid.
GridIds(ids) == {ids[c] : c \in Cells} \ {0}

\* The IDs handed out so far.
MintedIds == {minted[i] : i \in 1 .. Len(minted)}

\* C1: after construction and after every step(), a cell's cluster ID is
\* positive exactly when the cell is BURNING or ASH; EMPTY and TREE cells
\* carry ID 0.
C1_StateIdCoupling ==
  \A c \in Cells :
    /\ (fire_cluster_ids[c] > 0) <=> (grid[c] \in {BURNING, ASH})
    /\ grid[c] \in {EMPTY, TREE} => fire_cluster_ids[c] = 0

\* A grid with a BURNING cell, an ASH cell, a TREE and an EMPTY cell at once.
C1_Witness ==
  /\ step_count >= 2
  /\ \E c \in Cells : grid[c] = BURNING /\ fire_cluster_ids[c] > 0
  /\ \E c \in Cells : grid[c] = ASH /\ fire_cluster_ids[c] > 0
  /\ \E c \in Cells : grid[c] = TREE
  /\ \E c \in Cells : grid[c] = EMPTY

\* C2: the IDs minted for lightning ignitions are strictly increasing over the
\* whole run (so none is minted twice, also after its cluster was pruned),
\* and every ID on the cluster-ID grid or among the registry keys is >= 1
\* and < next_cluster_id.
C2_IdsMonotone ==
  /\ \A i, j \in 1 .. Len(minted) : i < j => minted[i] < minted[j]
  /\ \A i \in 1 .. Len(minted) : 1 <= minted[i] /\ minted[i] < next_cluster_id
  /\ \A k \in GridIds(fire_cluster_ids) : 1 <= k /\ k < next_cluster_id
  /\ \A k \in DOMAIN cluster_registry : 1 <= k /\ k < next_cluster_id

\* ID 2 was minted after the entry of ID 1 had died and been pruned.
C2_Witness ==
  /\ Len(minted) = 2
  /\ 1 \notin DOMAIN cluster_registry
  /\ 2 \in DOMAIN cluster_registry
  /\ cluster_registry[2].birth = step_count
  /\ step_count > 1

\* Every ASH cell has a BURNING cell of the same ID in the same grid.
AshBacked(g, ids) ==
  \A c \in Cells : g[c] = ASH => BurningOf(g, ids, ids[c]) # {}

\* C3: after every step(), every ASH cell with ID k has a BURNING cell with
\* ID k in the same grid; and an ID with no BURNING cell after a step is
\* carried by no cell after that step, all its former cells being EMPTY.
C3_NoDeadAsh ==
  [][/\ AshBacked(grid', fire_cluster_ids')
     /\ \A k \in GridIds(fire_cluster_ids) :
          BurningOf(grid', fire_cluster_ids', k) = {} =>
            /\ CellsOf(fire_cluster_ids', k) = {}
            /\ \A c \in CellsOf(fire_cluster_ids, k) : grid'[c] = EMPTY]_vars

\* A cluster that had ash and fire has died: its registry entry is dead with
\* a peak of at least two cells, and no cell carries its ID any more.
C3_Witness ==
  \E k \in DOMAIN cluster_registry :
    /\ cluster_registry[k].death = step_count
    /\ cluster_registry[k].max_size >= 2
    /\ CellsOf(fire_cluster_ids, k) = {}
    /\ \E c \in Cells : grid[c] = ASH

\* C4: after every step(), no registry entry has death set and
\* step_count - death > window_size.
C4_Pruned ==
  \A k \in DOMAIN cluster_registry :
    cluster_registry[k].death # None =>
      step_count - cluster_registry[k].death <= window_size

\* One entry was pruned while another is dead for exactly window_size steps.
C4_Witness ==
  /\ \E k \in MintedIds : k \notin DOMAIN cluster_registry
  /\ \E k \in DOMAIN cluster_registry :
       /\ cluster_registry[k].death # None
       /\ step_count - cluster_registry[k].death = window_size

\* C5: len(active_fire_history) <= window_size and len(sizes) <= window_size
\* for every registry entry, after any number of steps.
C5_BoundedHistories ==
  /\ Len(active_fire_history) <= window_size
  /\ \A k \in DOMAIN cluster_registry :
       Len(cluster_registry[k].sizes) <= window_size

\* Both kinds of history are full and have already lost their oldest sample.
C5_Witness ==
  /\ step_count > window_size
  /\ Len(active_fire_history) = window_size
  /\ \E k \in DOMAIN cluster_registry :
       /\ Len(cluster_registry[k].sizes) = window_size
       /\ cluster_registry[k].sizes[1][1] > cluster_registry[k].birth

\* The sample most recently appended to the size history of entry k.
LastSample(k) ==
  cluster_registry[k].sizes[Len(cluster_registry[k].sizes)]

\* C7 as stated: for every cluster active after a step, the sample appended
\* in that step holds the number of cells that are BURNING and carry the ID
\* (ASH cells are not counted).
C7_SizeIsBurningCount ==
  \A k \in DOMAIN current_clusters :
    /\ k \in DOMAIN cluster_registry
    /\ Len(cluster_registry[k].sizes) > 0
    /\ LastSample(k) =
         <<step_count, Cardinality(BurningOf(grid, fire_cluster_ids, k))>>

\* C7 (amended): for every cluster active after a step, the sample appended
\* in that step holds the number of cells that carry the ID in the resulting
\* grid, BURNING and ASH cells alike; current_clusters holds the same number
\* and max_size is at least that number.
C7_SizeIsCellCount ==
  \A k \in DOMAIN current_clusters :
    /\ k \in DOMAIN cluster_registry
    /\ Len(cluster_registry[k].sizes) > 0
    /\ LastSample(k) =
         <<step_count,
           Cardinality({c \in Cells : /\ fire_cluster_ids[c] = k
                                      /\ grid[c] \in {BURNING, ASH}})>>
    /\ current_clusters[k] = LastSample(k)[2]
    /\ cluster_registry[k].max_size >= LastSample(k)[2]

\* Two clusters are active and one of them has an ASH cell.
C7_Witness ==
  /\ Cardinality(DOMAIN current_clusters) = 2
  /\ \E k \in DOMAIN current_clusters :
       \E c \in Cells : grid[c] = ASH /\ fire_cluster_ids[c] = k

\* Entry k exists with death set, in the given registry.
IsDead(reg, k) == k \in DOMAIN reg /\ reg[k].death # None

\* C8: death is set in step d exactly for the IDs that had a BURNING cell
\* after step d-1 and have none after step d, and it is set to d; once set,
\* death is never changed or cleared by a later step.
C8_DeathSetOnce ==
  [][\A k \in 1 .. MaxId :
       /\ (IsDead(cluster_registry', k) /\ ~IsDead(cluster_registry, k))
            <=> (/\ BurningOf(grid, fire_cluster_ids, k) # {}
                 /\ BurningOf(grid', fire_cluster_ids', k) = {})
       /\ (IsDead(cluster_registry', k) /\ ~IsDead(cluster_registry, k))
            => cluster_registry'[k].death = step_count'
       /\ (IsDead(cluster_registry, k) /\ k \in DOMAIN cluster_registry')
            => cluster_registry'[k].death = cluster_registry[k].death]_vars

\* An entry whose death was set in an earlier step is still in the registry
\* while another cluster is burning.
C8_Witness ==
  /\ \E k \in DOMAIN cluster_registry :
       /\ cluster_registry[k].death # None
       /\ cluster_registry[k].death < step_count
       /\ cluster_registry[k].death > cluster_registry[k].birth + 1
  /\ DOMAIN current_clusters # {}

\* C9: after every step(), an entry has death unset exactly when its ID
\* labels a BURNING cell, every ID that labels a BURNING cell has an entry,
\* and the keys of current_clusters are the entries with death unset.
C9_AliveIffBurning ==
  /\ \A k \in DOMAIN cluster_registry :
       (cluster_registry[k].death = None)
         <=> (BurningOf(grid, fire_cluster_ids, k) # {})
  /\ \A c \in Cells :
       grid[c] = BURNING => fire_cluster_ids[c] \in DOMAIN cluster_registry
  /\ DOMAIN current_clusters =
       {k \in DOMAIN cluster_registry : cluster_registry[k].death = None}

\* The registry holds a dead entry and a live one at once.
C9_Witness ==
  /\ \E k \in DOMAIN cluster_registry : cluster_registry[k].death # None
  /\ \E k \in DOMAIN cluster_registry :
       /\ cluster_registry[k].death = None
       /\ BurningOf(grid, fire_cluster_ids, k) # {}

\* C10: an entry is created only in the step that mints its ID, which is the
\* first step after which the ID labels a BURNING cell, with birth equal to
\* the step counter of that step; every ID that labels a BURNING cell after
\* a step has an entry; birth never changes afterwards.
C10_BirthOnce ==
  [][\A k \in 1 .. MaxId :
       /\ (k \in DOMAIN cluster_registry' /\ k \notin DOMAIN cluster_registry)
            => /\ cluster_registry'[k].birth = step_count'
               /\ BurningOf(grid', fire_cluster_ids', k) # {}
               /\ k \notin MintedIds
               /\ next_cluster_id <= k /\ k < next_cluster_id'
       /\ (k \notin MintedIds /\ BurningOf(grid', fire_cluster_ids', k) # {})
            => k \in DOMAIN cluster_registry'
       /\ (k \in DOMAIN cluster_registry' /\ k \in DOMAIN cluster_registry)
            => cluster_registry'[k].birth = cluster_registry[k].birth]_vars

\* An entry created in a step later than the first has lived through a
\* further step.
C10_Witness ==
  \E k \in DOMAIN cluster_registry :
    /\ cluster_registry[k].birth > 1
    /\ cluster_registry[k].birth < step_count
    /\ Len(cluster_registry[k].sizes) = 2

\* Entry k leaves the registry in this step.
Removed(k) == k \in DOMAIN cluster_registry /\ k \notin DOMAIN cluster_registry'

\* C11 as stated: an entry with death = d is removed exactly window_size
\* steps after its death: it is in the registry after every step s with
\* d <= s < d + window_size and is absent after step d + window_size.
C11_RemovedAfterW ==
  [][\A k \in DOMAIN cluster_registry :
       Removed(k) <=> (/\ cluster_registry[k].death # None
                       /\ step_count' = cluster_registry[k].death + window_size)]_vars

\* C11 (amended): an entry with death = d is removed exactly window_size + 1
\* steps after its death: it is in the registry after every step s with
\* d <= s <= d + window_size and is absent after step d + window_size + 1;
\* an entry with death unset is never removed.
C11_RemovedAfterWPlusOne ==
  [][\A k \in DOMAIN cluster_registry :
       Removed(k) <=> (/\ cluster_registry[k].death # None
                       /\ step_count' = cluster_registry[k].death + window_size + 1)]_vars

\* The entry of ID 1 has been removed at the earliest step at which an entry
\* can be removed: minted in step 1, dead in step 2, removed in step
\* 2 + window_size + 1.
C11_Witness ==
  /\ 1 \in MintedIds
  /\ 1 \notin DOMAIN cluster_registry
  /\ step_count = window_size + 3

\* ID k stops burning in this step.
DiesNow(k) ==
  /\ BurningOf(grid, fire_cluster_ids, k) # {}
  /\ BurningOf(grid', fire_cluster_ids', k) = {}

\* C12 as stated (scenario B): once neither ID has a BURNING cell the registry
\* holds an entry for ID 1 and one for ID 2, each with death equal to the
\* first step after which the ID has no BURNING cell.  Step by step, until
\* that moment: an ID that stops burning has an entry with death = this
\* step, and an ID that stopped before keeps its entry and its death.
C12_ScenarioB_AsStated ==
  [][\A k \in {1, 2} :
       (/\ BurningOf(grid, fire_cluster_ids, 1) \cup
             BurningOf(grid, fire_cluster_ids, 2) # {}
        /\ BurningOf(grid', fire_cluster_ids', k) = {})
         => /\ k \in DOMAIN cluster_registry'
            /\ IF DiesNow(k)
                 THEN cluster_registry'[k].death = step_count'
                 ELSE /\ IsDead(cluster_registry, k)
                      /\ cluster_registry'[k].death = cluster_registry[k].death]_vars

\* C12 (amended): an ID that labels a BURNING cell after at least one step()
\* gets an entry whose death is the first step after which the ID has no
\* BURNING cell; the entry keeps that death and stays in the registry
\* through step death + window_size, then it is pruned (possibly before the
\* other ID stops burning).  An ID that stops burning in the very first
\* step never gets an entry.
C12_ScenarioB ==
  [][\A k \in {1, 2} :
       /\ DiesNow(k) =>
            IF step_count >= 1
              THEN /\ k \in DOMAIN cluster_registry'
                   /\ cluster_registry'[k].death = step_count'
              ELSE k \notin DOMAIN cluster_registry'
       /\ (BurningOf(grid, fire_cluster_ids, k) # {} /\ ~DiesNow(k))
            => /\ k \in DOMAIN cluster_registry'
               /\ cluster_registry'[k].death = None
       /\ BurningOf(grid, fire_cluster_ids, k) = {}
            => /\ k \in DOMAIN cluster_registry => IsDead(cluster_registry, k)
               /\ k \in DOMAIN cluster_registry'
                    <=> (/\ k \in DOMAIN cluster_registry
                         /\ step_count' - cluster_registry[k].death <= window_size)
               /\ k \in DOMAIN cluster_registry'
                    => cluster_registry'[k].death = cluster_registry[k].death]_vars

\* Neither ID burns any more and both entries are there, with different
\* deaths.
C12_Witness ==
  /\ BurningOf(grid, fire_cluster_ids, 1) = {}
  /\ BurningOf(grid, fire_cluster_ids, 2) = {}
  /\ 1 \in DOMAIN cluster_registry
  /\ 2 \in DOMAIN cluster_registry
  /\ cluster_registry[1].death # None
  /\ cluster_registry[2].death # None
  /\ cluster_registry[1].death < cluster_registry[2].death

\* The history of a run of n steps without any fire: the pairs (s, 0) of the
\* last min(n, window_size) steps, oldest first.
QuietHistory(n) ==
  [i \in 1 .. (IF n < window_size THEN n ELSE window_size) |->
     <<n - (IF n < window_size THEN n ELSE window_size) + i, 0>>]

\* C13 (scenario C): with p_tree = 0, p_fire = 0 and no fire in the initial
\* grid, every step() leaves the grid, the cluster-ID grid, next_cluster_id
\* and the empty registry unchanged, and after n steps the Active Fire
\* History is the pairs (s, 0) of the last min(n, window_size) steps.
C13_ScenarioC ==
  [][/\ grid' = grid
     /\ fire_cluster_ids' = fire_cluster_ids
     /\ next_cluster_id' = next_cluster_id
     /\ cluster_registry = <<>> /\ cluster_registry' = <<>>
     /\ step_count' = step_count + 1
     /\ active_fire_history' = QuietHistory(step_count')]_vars

\* A forest with trees and empty cells has been stepped past the capacity of
\* the history.
C13_Witness ==
  /\ p_tree = "zero" /\ p_fire = "zero"
  /\ step_count = window_size + 2
  /\ active_fire_history = QuietHistory(window_size + 2)
  /\ \E c \in Cells : grid[c] = TREE
  /\ \E c \in Cells : grid[c] = EMPTY

Abs(x) == IF x < 0 THEN 0 - x ELSE x

\* The in-grid N/S/E/W cells of a cell.
Neighbours(c) ==
  {d \in {c - grid_size, c + grid_size, c - 1, c + 1} :
     /\ d \in Cells
     /\ Abs(row(c) - row(d)) + Abs(col(c) - col(d)) = 1}

\* C14 (scenario A): with p_fire = 0 and the cell in the middle of the grid
\* the only fire, one step() turns that cell into ASH with its ID when one of
\* its 4 neighbours was TREE and into EMPTY when none was; in the former case
\* exactly the TREE neighbours are BURNING, with the same ID, no ID is minted
\* and the registry gains exactly one entry.
C14_ScenarioA ==
  [][step_count = 0 =>
       IF \E d \in Neighbours(Centre) : grid[d] = TREE
         THEN /\ grid'[Centre] = ASH
              /\ fire_cluster_ids'[Centre] = fire_cluster_ids[Centre]
              /\ {c \in Cells : grid'[c] = BURNING}
                   = {d \in Neighbours(Centre) : grid[d] = TREE}
              /\ \A d \in Neighbours(Centre) :
                   grid[d] = TREE
                     => fire_cluster_ids'[d] = fire_cluster_ids[Centre]
              /\ next_cluster_id' = next_cluster_id
              /\ minted' = minted
              /\ Cardinality(DOMAIN cluster_registry')
                   = Cardinality(DOMAIN cluster_registry) + 1
         ELSE /\ grid'[Centre] = EMPTY
              /\ fire_cluster_ids'[Centre] = 0]_vars

\* After the first step the middle cell is ASH, two of its neighbours burn
\* with its ID, and a tree that was not a neighbour still stands.
C14_Witness ==
  /\ step_count = 1
  /\ p_fire = "zero"
  /\ grid[Centre] = ASH
  /\ Cardinality({d \in Neighbours(Centre) :
                    /\ grid[d] = BURNING
                    /\ fire_cluster_ids[d] = fire_cluster_ids[Centre]}) = 2
  /\ \E c \in Cells \ Neighbours(Centre) : grid[c] = TREE
  /\ Cardinality(DOMAIN cluster_registry) = 1

\* The probabilities the interface allows: p in [0, 1].
ValidProbabilities == {"zero", "inside", "one"}

\* C15: a simulator built with p_tree or p_fire outside [0, 1] is rejected at
\* construction, so no step ever runs on one.
C15_InvalidRejected ==
  step_count > 0 =>
    (p_tree \in ValidProbabilities /\ p_fire \in ValidProbabilities)

\* The first step whose sample a history of capacity W still holds after n
\* steps: max(1, n - W + 1).
OldestStep(n) == IF n - window_size + 1 > 1 THEN n - window_size + 1 ELSE 1

\* C16: every step() adds 1 to step_count and puts the pair (step_count,
\* number of BURNING cells of the new grid) at the end of the Active Fire
\* History; the samples before it are the old ones in their order, without
\* the oldest when the history was full, so that after n steps the history
\* holds the samples of steps max(1, n - W + 1) .. n, oldest first.
C16_HistoryAppend ==
  [][LET h == active_fire_history
         h2 == active_fire_history'
         n == step_count'
         dropped == Len(h) + 1 - Len(h2)
     IN /\ n = step_count + 1
        /\ Len(h2) = n - OldestStep(n) + 1
        /\ h2[Len(h2)] = <<n, Cardinality({c \in Cells : grid'[c] = BURNING})>>
        /\ dropped \in {0, 1}
        /\ dropped = 1 <=> Len(h) = window_size
        /\ \A i \in 1..(Len(h2) - 1) : h2[i] = h[i + dropped]
        /\ \A i \in 1..Len(h2) : h2[i][1] = OldestStep(n) + i - 1]_vars

\* More steps than the history holds have run: the oldest sample is gone, and
\* the samples kept have different fire counts, the newest not 0.
C16_Witness ==
  /\ step_count > window_size
  /\ Len(active_fire_history) = window_size
  /\ active_fire_history[1][1] = step_count - window_size + 1
  /\ active_fire_history[window_size][2] > 0
  /\ active_fire_history[1][2] # active_fire_history[window_size][2]
  /\ \E c \in Cells : grid[c] = ASH

\* C17: right after construction every cell is TREE or EMPTY, every cluster
\* ID is 0, next_cluster_id is 1, step_count is 0, and the Active Fire
\* History, the cluster registry and current_clusters are empty.
C17_AfterConstruction ==
  step_count = 0 =>
    /\ \A c \in Cells : grid[c] \in {TREE, EMPTY}
    /\ \A c \in Cells : fire_cluster_ids[c] = 0
    /\ next_cluster_id = 1
    /\ active_fire_history = <<>>
    /\ DOMAIN cluster_registry = {}
    /\ DOMAIN current_clusters = {}

\* A simulator on which no step has run, with trees and empty cells.
C17_Witness ==
  /\ step_count = 0
  /\ \E c \in Cells : grid[c] = TREE
  /\ \E c \in Cells : grid[c] = EMPTY

\* The BURNING 4-neighbours of a cell in grid g.
BurningNeighbours(g, c) == {d \in Neighbours(c) : g[d] = BURNING}

StruckAlone ==
  {c \in Cells : /\ grid[c] = TREE
                 /\ grid'[c] = BURNING
                 /\ BurningNeighbours(grid, c) = {}}

\* Cell d comes before cell c in row-major order.
Before(d, c) == row(d) < row(c) \/ (row(d) = row(c) /\ col(d) < col(c))

\* C19: the k trees that ignite in a step without a BURNING 4-neighbour get
\* the IDs next_cluster_id, ..., next_cluster_id + k - 1 in row-major order
\* of the cells, and next_cluster_id grows by k (by nothing when k = 0).
C19_NewIdsInOrder ==
  [][\E struck \in {StruckAlone} :
       /\ \A c \in struck :
            fire_cluster_ids'[c]
              = next_cluster_id + Cardinality({d \in struck : Before(d, c)})
       /\ next_cluster_id' = next_cluster_id + Cardinality(struck)]_vars

\* Two adjacent trees were struck in the first step: the first in row-major
\* order burns with ID 1, the other with ID 2, and the counter stands at 3.
C19_Witness ==
  /\ step_count = 1
  /\ next_cluster_id = 3
  /\ \E c \in Cells : \E d \in Neighbours(c) :
       /\ Before(c, d)
       /\ grid[c] = BURNING
       /\ grid[d] = BURNING
       /\ fire_cluster_ids[c] = 1
       /\ fire_cluster_ids[d] = 2

\* C20: a cell is BURNING after a step exactly when it was a TREE before the
\* step and then had a BURNING 4-neighbour or is struck by the step's
\* lightning; so a TREE with neither stays a TREE, also when a neighbour of
\* it ignites in the step.
C20_IgnitionFromOldGrid ==
  [][/\ \A c \in Cells :
          grid'[c] = BURNING
            <=> /\ grid[c] = TREE
                /\ (BurningNeighbours(grid, c) # {} \/ c \in lightning_mask')
     /\ \A c \in Cells :
          (/\ grid[c] = TREE
           /\ BurningNeighbours(grid, c) = {}
           /\ c \notin lightning_mask')
            => grid'[c] = TREE]_vars

\* After the step a tree stands next to a cell that caught fire in the step,
\* and the step's lightning also fell on a cell that was not a tree.
C20_Witness ==
  /\ step_count > 0
  /\ \E c \in Cells : \E d \in Neighbours(c) :
       grid[c] = TREE /\ grid[d] = BURNING
  /\ \E s \in lightning_mask : grid[s] = EMPTY /\ fire_cluster_ids[s] = 0

\* The cells that np.roll alone would make neighbours of c: the cell at the
\* other end of its column when c is in the first or last row, and the cell at
\* the other end of its row when c is in the first or last column.
Opposite(c) ==
  {d \in Cells :
     \/ col(d) = col(c) /\ Abs(row(d) - row(c)) = grid_size - 1
     \/ row(d) = row(c) /\ Abs(col(d) - col(c)) = grid_size - 1}

\* C21: adjacency does not wrap. A TREE whose only BURNING "neighbour" is at
\* the other end of its row or column catches fire only by lightning, and then
\* with a new ID, not with the ID of that cell; and a TREE with a BURNING cell
\* among its in-grid N/S/E/W cells always catches fire, with the ID of one of
\* them.
C21_NoWrap ==
  [][\A c \in Cells :
       grid[c] = TREE
         => \E near \in {BurningNeighbours(grid, c)} :
              /\ (near = {} /\ \E d \in Opposite(c) : grid[d] = BURNING)
                   => IF c \in lightning_mask'
                        THEN /\ grid'[c] = BURNING
                             /\ fire_cluster_ids'[c] >= next_cluster_id
                        ELSE /\ grid'[c] = TREE
                             /\ fire_cluster_ids'[c] = 0
              /\ near # {}
                   => /\ grid'[c] = BURNING
                      /\ \E d \in near :
                           fire_cluster_ids'[c] = fire_cluster_ids[d]]_vars

\* A cell of the first row burnt in the step that just ran (it is ASH now, one
\* step after lightning struck it) and the tree at the other end of its column
\* still stands, with no fire next to it.
C21_Witness ==
  /\ step_count = 2
  /\ \E k \in 0..(grid_size - 1) :
       /\ grid[cell(0, k)] = ASH
       /\ grid[cell(grid_size - 1, k)] = TREE
       /\ fire_cluster_ids[cell(grid_size - 1, k)] = 0
       /\ BurningNeighbours(grid, cell(grid_size - 1, k)) = {}

\* The states a cell in state x may have after one step().
MayBecome(x) ==
  IF x = EMPTY THEN {EMPTY, TREE}
  ELSE IF x = TREE THEN {TREE, BURNING}
  ELSE {ASH, EMPTY}

\* C22: in one step() a cell goes from EMPTY to EMPTY or TREE, from TREE to
\* TREE or BURNING, from BURNING to ASH or EMPTY, from ASH to ASH or EMPTY;
\* so no cell is BURNING in two consecutive steps, a TREE of the new grid
\* that was not a TREE was EMPTY, and a BURNING or ASH cell becomes neither
\* TREE nor BURNING.
C22_CellTransitions ==
  [][\A c \in Cells :
       /\ grid'[c] \in MayBecome(grid[c])
       /\ (grid[c] = BURNING => grid'[c] # BURNING)
       /\ (grid'[c] = TREE /\ grid[c] # TREE => grid[c] = EMPTY)
       /\ (grid[c] \in {BURNING, ASH} => grid'[c] \notin {TREE, BURNING})]_vars

\* With p_tree = 1 every cell draws a new tree in every step and every EMPTY
\* cell becomes a TREE, so a cell that is EMPTY after a step was BURNING or
\* ASH before it and did not sprout; here one is EMPTY next to a cell that
\* is still ASH and a cell that burns.
C22_Witness ==
  /\ p_tree = "one"
  /\ step_count >= 2
  /\ \E c \in Cells : grid[c] = EMPTY
  /\ \E c \in Cells : grid[c] = ASH
  /\ \E c \in Cells : grid[c] = BURNING
  /\ \E c \in Cells : grid[c] = TREE

\* The trees that catch fire in the step and get cluster ID k.
IgnitedWith(k) ==
  {d \in Cells : grid[d] = TREE /\ grid'[d] = BURNING
                   /\ fire_cluster_ids'[d] = k}

\* C23: a cell that is BURNING or ASH with cluster ID k before a step is ASH
\* with ID k after it when some cell that ignites in the step gets ID k, and
\* EMPTY with ID 0 otherwise; so the ID of a cell does not change while the
\* cell is BURNING or ASH.
C23_AshWhileAlive ==
  [][\A c \in Cells :
       grid[c] \in {BURNING, ASH}
         => IF IgnitedWith(fire_cluster_ids[c]) # {}
              THEN /\ grid'[c] = ASH
                   /\ fire_cluster_ids'[c] = fire_cluster_ids[c]
              ELSE /\ grid'[c] = EMPTY
                   /\ fire_cluster_ids'[c] = 0]_vars

\* In step 3 a cluster born in step 1 ignited a third cell and kept its two
\* earlier cells as ASH (one of them was ASH already), while another cluster
\* ignited nothing: it died in this step and its cells are EMPTY.
C23_Witness ==
  /\ step_count = 3
  /\ \E k \in DOMAIN current_clusters : \E j \in DOMAIN cluster_registry :
       /\ cluster_registry[k].birth = 1
       /\ Cardinality({c \in Cells : grid[c] = ASH
                                       /\ fire_cluster_ids[c] = k}) = 2
       /\ j # k
       /\ cluster_registry[j].death = step_count
       /\ CellsOf(fire_cluster_ids, j) = {}

\* C24: max_size of a registry entry is the largest size sample ever appended
\* for its ID. Step by step: an entry created in the step has the size of its
\* first sample; a sample appended to an older entry leaves in max_size the
\* larger of the old max_size and the sample; a step that appends no sample
\* leaves max_size as it was. Hence max_size is never below a sample of the
\* history and never decreases.
C24_MaxSizeIsRunningMax ==
  [][\A k \in DOMAIN cluster_registry' :
       \E e2 \in {cluster_registry'[k]} :
         /\ \A i \in 1..Len(e2.sizes) : e2.max_size >= e2.sizes[i][2]
         /\ k \in DOMAIN cluster_registry
              => e2.max_size >= cluster_registry[k].max_size
         /\ IF k \in DOMAIN current_clusters'
              THEN \E sample \in {e2.sizes[Len(e2.sizes)]} :
                     /\ sample[1] = step_count'
                     /\ e2.max_size
                          = IF k \in DOMAIN cluster_registry
                                 /\ cluster_registry[k].max_size > sample[2]
                              THEN cluster_registry[k].max_size
                              ELSE sample[2]
              ELSE /\ k \in DOMAIN cluster_registry
                   /\ e2.max_size = cluster_registry[k].max_size
                   /\ e2.sizes = cluster_registry[k].sizes]_vars

\* A cluster has been sampled more often than its size history holds: its
\* first sample is evicted, and max_size is above the oldest sample kept.
C24_Witness ==
  \E k \in DOMAIN cluster_registry :
    \E e \in {cluster_registry[k]} :
      /\ Len(e.sizes) = window_size
      /\ e.sizes[1][1] > e.birth
      /\ e.max_size > e.sizes[1][2]
      /\ k \in DOMAIN current_clusters

\* Cluster a is about to be outvoted: a TREE has a BURNING neighbour with ID a
\* and a BURNING neighbour with a larger ID.
Outvoted(a) ==
  \E c \in Cells :
    /\ grid[c] = TREE
    /\ \E d \in BurningNeighbours(grid, c) :
       \E e \in BurningNeighbours(grid, c) :
         fire_cluster_ids[d] = a /\ fire_cluster_ids[e] > a

\* C25: a TREE with BURNING neighbours of two cluster IDs a < b joins the
\* larger one when it ignites, and from then on the smaller ID a comes to a
\* step after which it has no registry entry; the entry leaves the registry
\* only with a death step, when no cell is BURNING with ID a.
C25_OutvotedDiesAndIsPruned ==
  /\ [][/\ \A c \in Cells :
            \A d \in BurningNeighbours(grid, c) :
            \A e \in BurningNeighbours(grid, c) :
              (grid[c] = TREE /\ fire_cluster_ids[d] < fire_cluster_ids[e])
                => /\ grid'[c] = BURNING
                   /\ fire_cluster_ids'[c] >= fire_cluster_ids[e]
                   /\ fire_cluster_ids'[c] # fire_cluster_ids[d]
        /\ \A a \in DOMAIN cluster_registry :
             Removed(a)
               => /\ IsDead(cluster_registry, a)
                  /\ BurningOf(grid, fire_cluster_ids, a) = {}
                  /\ BurningOf(grid', fire_cluster_ids', a) = {}]_vars
  /\ \A a \in 1..MaxId :
       (Outvoted(a) /\ a \in DOMAIN cluster_registry)
         ~> (a \notin DOMAIN cluster_registry)

\* Steps have run, clusters 1 and 2 are in the registry and burn, and a TREE
\* stands between a BURNING cell of cluster 1 and one of cluster 2.
C25_Witness ==
  /\ step_count >= 1
  /\ {1, 2} \subseteq DOMAIN cluster_registry
  /\ {1, 2} \subseteq DOMAIN current_clusters
  /\ Outvoted(1)

\* C26: in every registry entry the samples of the size history are of
\* consecutive steps and each is larger than the one before it, and max_size
\* is the size of the newest sample.
C26_SizesIncrease ==
  \A k \in DOMAIN cluster_registry :
    \E e \in {cluster_registry[k]} :
      /\ \A i \in 1..(Len(e.sizes) - 1) :
           /\ e.sizes[i + 1][1] = e.sizes[i][1] + 1
           /\ e.sizes[i + 1][2] > e.sizes[i][2]
      /\ Len(e.sizes) > 0 => e.max_size = e.sizes[Len(e.sizes)][2]

\* A cluster was sampled in two consecutive steps and grew by two cells from
\* the first to the second, which is its max_size.
C26_Witness ==
  \E k \in DOMAIN cluster_registry :
    \E e \in {cluster_registry[k]} :
      /\ Len(e.sizes) = 2
      /\ e.sizes[2][2] >= e.sizes[1][2] + 2
      /\ e.max_size = e.sizes[2][2]

\* The trees that a BURNING cell of cluster a ignites in the next step.
FrontOf(a) ==
  {c \in Cells : /\ grid[c] = TREE
                 /\ \E d \in BurningNeighbours(grid, c) :
                      fire_cluster_ids[d] = a}

\* C27: when every tree that the BURNING cells of cluster a ignite in a step
\* also has a BURNING neighbour with a larger ID, then after the step these
\* trees burn with larger IDs, no cell carries ID a, the cells that carried it
\* are EMPTY, and a's registry entry, if there is one, has death = that step.
C27_OutvotedEverywhere ==
  [][\A a \in {fire_cluster_ids[c] : c \in {d \in Cells : grid[d] = BURNING}} :
       \E front \in {FrontOf(a)} :
         (\A c \in front :
            \E e \in BurningNeighbours(grid, c) : fire_cluster_ids[e] > a)
           => /\ \A c \in front :
                   grid'[c] = BURNING /\ fire_cluster_ids'[c] > a
              /\ CellsOf(fire_cluster_ids', a) = {}
              /\ \A c \in CellsOf(fire_cluster_ids, a) : grid'[c] = EMPTY
              /\ a \in DOMAIN cluster_registry
                   => /\ a \in DOMAIN cluster_registry'
                      /\ cluster_registry'[a].death = step_count']_vars

\* With p_tree = 1 a cell that is EMPTY after a step carried a fire before
\* it. Cluster 1 was struck in step 1 on the first cell and cluster 2 on the
\* middle cell; in step 2 both neighbours of the first cell caught fire with
\* ID 2, the first cell is EMPTY and cluster 1 has death = 2.
C27_Witness ==
  /\ p_tree = "one"
  /\ step_count = 2
  /\ grid[cell(0, 0)] = EMPTY
  /\ \A c \in Neighbours(cell(0, 0)) :
       grid[c] = BURNING /\ fire_cluster_ids[c] = 2
  /\ grid[Centre] = ASH
  /\ fire_cluster_ids[Centre] = 2
  /\ 1 \in DOMAIN cluster_registry
  /\ cluster_registry[1].birth = 1
  /\ cluster_registry[1].death = 2
  /\ cluster_registry[1].max_size = 1

\* C28: an ID that has been handed out and labels no BURNING cell is dead for
\* good: no cell carries it now or after the next step, it is not in
\* current_clusters now or after the next step, and when it has no registry
\* entry it gets none. (A dead ID is dead again after the step, so the same
\* holds after every later step.)
C28_NeverRevived ==
  [][\A k \in 1..(next_cluster_id - 1) :
       BurningOf(grid, fire_cluster_ids, k) = {}
         => /\ CellsOf(fire_cluster_ids, k) = {}
            /\ CellsOf(fire_cluster_ids', k) = {}
            /\ k \notin DOMAIN current_clusters
            /\ k \notin DOMAIN current_clusters'
            /\ k \notin DOMAIN cluster_registry
                 => k \notin DOMAIN cluster_registry']_vars

\* Cluster 1 is dead and pruned from the registry, and a fire that lightning
\* started later burns as cluster 2.
C28_Witness ==
  /\ next_cluster_id = 3
  /\ 1 \notin DOMAIN cluster_registry
  /\ CellsOf(fire_cluster_ids, 1) = {}
  /\ 2 \in DOMAIN current_clusters
  /\ cluster_registry[2].birth = step_count
  /\ BurningOf(grid, fire_cluster_ids, 2) # {}

\* No cell of grid g is BURNING or ASH.
NoFire(g) == \A c \in Cells : g[c] \in {EMPTY, TREE}

\* Every registry entry of reg has a death step, not after step n and not
\* more than window_size steps before it.
AllDead(reg, n) ==
  \A k \in DOMAIN reg :
    /\ reg[k].death # None
    /\ reg[k].death <= n
    /\ n - reg[k].death <= window_size

\* C29: with p_tree = 0 and p_fire = 0 every step that leaves a BURNING cell
\* has one TREE less than the grid before it, and the run reaches a grid
\* without BURNING and ASH cells. Such a grid does not change any more; in it
\* every registry entry has a death step, no entry is added or changed, each
\* entry is gone window_size + 1 steps after its death step, and the registry
\* ends up empty.
C29_BurnsOut ==
  /\ [][/\ (\E c \in Cells : grid'[c] = BURNING)
             => num_trees(grid') < num_trees(grid)
        /\ NoFire(grid')
             => AllDead(cluster_registry', step_count')
        /\ NoFire(grid)
             => /\ grid' = grid
                /\ fire_cluster_ids' = fire_cluster_ids
                /\ \A k \in DOMAIN cluster_registry' :
                     /\ k \in DOMAIN cluster_registry
                     /\ cluster_registry'[k] = cluster_registry[k]]_vars
  /\ <>[](NoFire(grid) /\ DOMAIN cluster_registry = {})

\* The fire is out: it still burnt window_size - 1 steps ago, a tree it did
\* not reach stands, and the registry holds only entries with a death step.
C29_Witness ==
  /\ p_tree = "zero"
  /\ p_fire = "zero"
  /\ NoFire(grid)
  /\ \E c \in Cells : grid[c] = TREE
  /\ DOMAIN cluster_registry # {}
  /\ AllDead(cluster_registry, step_count)
  /\ Len(active_fire_history) = window_size
  /\ active_fire_history[1][2] > 0
  /\ active_fire_history[window_size][2] = 0

====
